---- MODULE Spec2Model ----
(***************************************************************************)
(* Model of the plugin_manager crate (plugin_manager/src/lib.rs): the     *)
(* PluginManager registry, the dynamic loader and the activation loop.    *)
(* The process is one caller thread that owns a PluginManager; activation *)
(* is split at the points where the code calls load_plugin, register_     *)
(* plugin and ManuallyDrop::new, and at the frames a panic unwinds.       *)
(***************************************************************************)
EXTENDS Naturals, Sequences, FiniteSets, TLC

VARIABLES
    manifest,       \* the file CARGO_MANIFEST_PATH points to (environment, fixed)
    plugins,        \* PluginManager.plugins : name -> PluginInfo
    plugin_path,    \* PluginManager.plugin_path : Vec of one-entry maps
    pc,             \* where the caller thread is
    registrations,  \* activate_plugins: the part of `registrations` not yet iterated
    cur,            \* activation_registration: the entry being processed
    library,        \* the Library the current frame owns (index in libs), 0 = none
    pending,        \* register_plugins_vec: plugins produced and not yet registered
    libs,           \* every Library value ever created: path and what became of it
    outcome,        \* what the last call gave its caller
    loadLog,        \* history: the load_plugin calls of the current manager's activation
    startedWith,    \* history: the manager's state when the last activation began
    okResults,      \* history: the outcomes of the activations of empty registries that returned Ok
    nActs, nQueued, nRegs, nNew,  \* call counters (bounded)
    call,           \* the last call of a registry operation: arguments, registry before, result
    nLoads,         \* call counter (bounded)
    reads,          \* per thread: the read operation it has in flight on the shared registry
    root            \* the root crate's PluginManager: its map and its last call

vars == <<manifest, plugins, plugin_path, pc, registrations, cur, library, pending,
          libs, outcome, loadLog, startedWith, okResults, nActs, nQueued, nRegs, nNew,
          call, nLoads, reads, root>>

-----------------------------------------------------------------------------
(* Bounds of the model *)
MaxActivations == 2     \* activate_plugins calls in one behaviour
MaxQueued == 1          \* with_path calls in one behaviour
MaxRegs == 2            \* direct register_plugin and deregister calls in one behaviour
MaxNew == 1             \* PluginManager::new() calls after the first one
MaxLoads == 2           \* direct load_plugin calls in one behaviour

-----------------------------------------------------------------------------
(* Option<String> *)
None == [some |-> FALSE, val |-> ""]
Some(s) == [some |-> TRUE, val |-> s]

(* The file system and the modules behind the paths: a module exporting   *)
(* create_plugins (mods.so is tests/plugin_mods, inv.so is                 *)
(* tests/plugin_inventory, clash.so produces a name mods.so also produces, *)
(* empty.so produces nothing), a path with no file, a file the native      *)
(* loader rejects, and a module without the entry symbol.                  *)
Paths == {"mods.so", "inv.so", "clash.so", "empty.so", "missing.so", "corrupt.so", "nosym.so"}
Files == Paths \ {"missing.so"}

create_plugins(path) ==
    CASE path = "mods.so"  -> <<"plugin_a", "plugin_b">>
      [] path = "inv.so"   -> <<"inventory_a">>
      [] path = "clash.so" -> <<"task_a", "plugin_a">>
      [] OTHER             -> <<>>

Loadable(path) == path # "corrupt.so"
HasSymbol(path) == path # "nosym.so"

EmptyMap == [x \in {} |-> ""]
EmptyRegistry == [x \in {} |-> None]


(* HashMap iteration order is unspecified: every order of the keys. *)
Perms(S) == {q \in [1..Cardinality(S) -> S] : \A i, j \in 1..Cardinality(S) : q[i] = q[j] => i = j}

(* PluginEntry (untagged enum): a path string, or a table sub-name -> path *)
Individual(p) == [kind |-> "Individual", path |-> p, map |-> EmptyMap]
Group(m) == [kind |-> "Group", path |-> "", map |-> m]

(* The manifests explored: the plugins table has the keys "entry_a" and    *)
(* "inventory" or fewer; "inventory" is any entry with up to two sub-names *)
(* and "entry_a" any entry with up to one.                                 *)
SubMaps(names) == UNION {[S -> Paths] : S \in SUBSET names}
Entries(names) == {Individual(p) : p \in Paths} \cup {Group(m) : m \in SubMaps(names)}
EntriesOf(key) == IF key = "inventory" THEN Entries({"s1", "s2"}) ELSE Entries({"s1"})
TopKeys == {"entry_a", "inventory"}
PluginConfigs == UNION {{c \in [K -> Entries({"s1", "s2"})] : \A k \in K : c[k] \in EntriesOf(k)}
                        : K \in SUBSET TopKeys}

(* What the manifest file can be.  "unreadable": read_to_string fails;     *)
(* "badtoml": the text is not TOML; "nometa": no package.metadata table;   *)
(* "badshape": package.metadata does not deserialize into Metadata;        *)
(* "noplugins": package.metadata has no plugins key; "ok": a plugins table *)
FaultKinds == {"unreadable", "badtoml", "nometa", "badshape", "noplugins"}
Manifests == {[kind |-> k, plugins |-> EmptyMap] : k \in FaultKinds}
             \cup {[kind |-> "ok", plugins |-> c] : c \in PluginConfigs}

(* Mutant: a missing plugins key reads as an empty plugins table *)
get_plugin_metadata_default(m) ==
    CASE m.kind = "badtoml"    -> [panic |-> "toml", some |-> FALSE, plugins |-> EmptyMap]
      [] m.kind = "badshape"   -> [panic |-> "shape", some |-> FALSE, plugins |-> EmptyMap]
      [] m.kind = "noplugins"  -> [panic |-> "", some |-> TRUE, plugins |-> EmptyMap]
      [] m.kind = "ok"         -> [panic |-> "", some |-> TRUE, plugins |-> m.plugins]
      [] OTHER                 -> [panic |-> "", some |-> FALSE, plugins |-> EmptyMap]

(* get_plugin_metadata: Metadata { plugins: Option<..> }, or a panic from  *)
(* one of its unwrap()s.                                                   *)
get_plugin_metadata(m) ==
    CASE m.kind = "unreadable" -> [panic |-> "", some |-> FALSE, plugins |-> EmptyMap]
      [] m.kind = "badtoml"    -> [panic |-> "toml", some |-> FALSE, plugins |-> EmptyMap]
      [] m.kind = "nometa"     -> [panic |-> "", some |-> FALSE, plugins |-> EmptyMap]
      [] m.kind = "badshape"   -> [panic |-> "shape", some |-> FALSE, plugins |-> EmptyMap]
      [] m.kind = "noplugins"  -> [panic |-> "", some |-> FALSE, plugins |-> EmptyMap]
      [] OTHER                 -> [panic |-> "", some |-> TRUE, plugins |-> m.plugins]

(* Mutant: the module is opened without checking first that the file exists *)
load_plugin_open_first(filename) ==
    IF filename \notin Files \/ ~Loadable(filename)
    THEN [res |-> "LoadError", steps |-> <<"open">>, names |-> <<>>]
    ELSE IF ~HasSymbol(filename)
    THEN [res |-> "SymbolNotFound", steps |-> <<"open", "symbol">>, names |-> <<>>]
    ELSE [res |-> "ok", steps |-> <<"open", "symbol", "create">>,
          names |-> create_plugins(filename)]

(* load_plugin: existence check, Library::new, library.get, create_plugin. *)
(* steps lists the native-loader steps the call went through.              *)
load_plugin(filename) ==
    IF filename \notin Files
    THEN [res |-> "FileNotFound", steps |-> <<"exists">>, names |-> <<>>]
    ELSE IF ~Loadable(filename)
    THEN [res |-> "LoadError", steps |-> <<"exists", "open">>, names |-> <<>>]
    ELSE IF ~HasSymbol(filename)
    THEN [res |-> "SymbolNotFound", steps |-> <<"exists", "open", "symbol">>, names |-> <<>>]
    ELSE [res |-> "ok", steps |-> <<"exists", "open", "symbol", "create">>,
          names |-> create_plugins(filename)]

(* A plugin instance: the name it reports, the module its code lives in    *)
(* and the Library value that produced it ("host"/0: code of the host)     *)
Instance(name, path, lib) == [name |-> name, path |-> path, lib |-> lib]
PluginInfo(plugin, group) == [plugin |-> plugin, group |-> group]

(* Mutant: HashMap::insert, which replaces the entry of a name already present *)
register_plugin_overwrite(reg, plugin, group) ==
    [panic |-> FALSE,
     plugins |-> [n \in DOMAIN reg \cup {plugin.name} |->
                     IF n = plugin.name THEN PluginInfo(plugin, group) ELSE reg[n]]]

(* Mutant: a name already present is left alone and nothing is reported *)
register_plugin_keep_first(reg, plugin, group) ==
    IF plugin.name \notin DOMAIN reg
    THEN register_plugin_overwrite(reg, plugin, group)
    ELSE [panic |-> FALSE, plugins |-> reg]

(* Mutant: a plugin registered with a group is stored under the group's name *)
register_plugin_group_key(reg, plugin, group) ==
    LET key == IF group.some THEN group.val ELSE plugin.name
    IN  IF key \notin DOMAIN reg
        THEN [panic |-> FALSE,
              plugins |-> [n \in DOMAIN reg \cup {key} |->
                              IF n = key THEN PluginInfo(plugin, group) ELSE reg[n]]]
        ELSE [panic |-> TRUE, plugins |-> reg]

(* register_plugin on the map: insert when the entry is vacant, panic otherwise *)
register_plugin(reg, plugin, group) ==
    IF plugin.name \notin DOMAIN reg
    THEN [panic |-> FALSE,
          plugins |-> [n \in DOMAIN reg \cup {plugin.name} |->
                          IF n = plugin.name THEN PluginInfo(plugin, group) ELSE reg[n]]]
    ELSE [panic |-> TRUE, plugins |-> reg]

(* Mutant: every entry's key is passed as the group *)
EntryGroup_always_key(key, kind) == Some(key)

(* Mutant: no group is passed for a Group entry either *)
EntryGroup_never(key, kind) == None

(* The group activation_registration passes to register_plugins_vec *)
EntryGroup(key, kind) == IF kind = "Individual" THEN None ELSE Some(key)

Result(op, kind, detail) == [op |-> op, kind |-> kind, detail |-> detail]
NoCall == [op |-> "none"]

(* The threads that share &PluginManager; a call that takes self or &mut   *)
(* self needs that none of them has a borrow in use                        *)
Threads == {"t1", "t2"}
NoReaders == \A t \in Threads : reads[t] = NoCall
NoEntry == [idx |-> 0, key |-> "", kind |-> "", group |-> None, paths |-> <<>>]

(* dlopen counts references: a module stays mapped while some Library for  *)
(* its path has not been dropped (a leaked one never is).                  *)
ModuleMapped(path) ==
    path = "host" \/ \E i \in 1..Len(libs) : libs[i].path = path /\ libs[i].state # "dropped"

(* The one-entry map with_path pushes: key group, value                    *)
(* Group({path_string: group_string})                                      *)
WithPathEntry(path_string, group_string) ==
    [key |-> group_string, entry |-> Group(path_string :> group_string)]

(* Option<&PluginInfo> and the sequences the getters collect *)
NoInfo == <<>>
SomeInfo(info) == <<info>>
Range(q) == {q[i] : i \in 1..Len(q)}

(* Mutant: the entry is looked up and reported but stays in the map *)
deregister_plugin_keep(reg, name) ==
    [ret |-> IF name \in DOMAIN reg THEN Some(reg[name].plugin.name) ELSE None,
     plugins |-> reg]

(* Mutant: the whole group of the named plugin is removed with it *)
deregister_plugin_group(reg, name) ==
    [ret |-> IF name \in DOMAIN reg THEN Some(reg[name].plugin.name) ELSE None,
     plugins |-> IF name \in DOMAIN reg
                 THEN [n \in {m \in DOMAIN reg : m # name /\ reg[m].group # reg[name].group}
                          |-> reg[n]]
                 ELSE reg]

(* deregister_plugin: HashMap::remove, then the name the removed plugin reports *)
deregister_plugin(reg, name) ==
    LET plugin == IF name \in DOMAIN reg THEN SomeInfo(reg[name]) ELSE NoInfo
    IN  [ret |-> IF plugin = NoInfo THEN None ELSE Some(plugin[1].plugin.name),
         plugins |-> [n \in DOMAIN reg \ {name} |-> reg[n]]]

(* Mutant: the names are collected without draining the map *)
deregister_all_plugins_keep(reg, q) ==
    [ret |-> q, plugins |-> reg]

(* deregister_all_plugins: HashMap::drain in the map's iteration order q,  *)
(* keeping the keys                                                        *)
deregister_all_plugins(reg, q) ==
    [ret |-> [i \in 1..Len(q) |-> q[i]], plugins |-> EmptyRegistry]

(* get_plugin: HashMap::get *)
get_plugin(reg, name) == IF name \in DOMAIN reg THEN SomeInfo(reg[name]) ELSE NoInfo

(* Mutant: only the text of the group is compared, an absent group reading as "" *)
get_plugins_by_group_text(reg, group, q) ==
    SelectSeq([i \in 1..Len(q) |-> reg[q[i]]], LAMBDA plugin_info : plugin_info.group.val = group)

(* get_plugins_by_group: the values, in the map's iteration order q,       *)
(* filtered by group.as_deref() == Some(group)                             *)
get_plugins_by_group(reg, group, q) ==
    SelectSeq([i \in 1..Len(q) |-> reg[q[i]]], LAMBDA plugin_info : plugin_info.group = Some(group))

(* get_all_plugin_names: the keys in the map's iteration order q *)
get_all_plugin_names(reg, q) == [i \in 1..Len(q) |-> q[i]]

(* Mutant: the group reported is the plugin's name *)
get_all_plugin_names_and_groups_named(reg, q) ==
    [i \in 1..Len(q) |-> <<q[i], Some(q[i])>>]

(* get_all_plugin_names_and_groups: (key, group) of every entry *)
get_all_plugin_names_and_groups(reg, q) ==
    [i \in 1..Len(q) |-> <<q[i], reg[q[i]].group>>]

(* The messages of the two errors built from strings *)
NotFoundMsg(name) == <<"Plugin '", name, "' not found">>
DowncastMsg(name) == <<"Failed to downcast plugin to type P: ", name>>

(* Plugin::execute of one instance: the plugin's code decides the result   *)
(* `result`; the call is what the plugin saw                               *)
Execute(plugin, context, result) == [plugin |-> plugin, context |-> context, result |-> result]

(* Mutant: an error of the plugin is swallowed *)
execute_plugin_swallow(reg, name, context, result) ==
    IF get_plugin(reg, name) # NoInfo
    THEN [ret |-> [kind |-> "ok", detail |-> <<>>],
          invoked |-> <<Execute(get_plugin(reg, name)[1].plugin, context, result)>>]
    ELSE [ret |-> [kind |-> "err", detail |-> NotFoundMsg(name)], invoked |-> <<>>]

(* execute_plugin: the plugin's own result when the name is registered,    *)
(* the not-found error otherwise                                           *)
execute_plugin(reg, name, context, result) ==
    IF get_plugin(reg, name) # NoInfo
    THEN [ret |-> result,
          invoked |-> <<Execute(get_plugin(reg, name)[1].plugin, context, result)>>]
    ELSE [ret |-> [kind |-> "err", detail |-> NotFoundMsg(name)], invoked |-> <<>>]

(* The concrete type behind as_any(): the struct of that name in that module *)
ConcreteType(plugin) == <<plugin.path, plugin.name>>

(* Mutant: a failed downcast is reported as a plugin that is not there *)
with_any_not_found(reg, name, P) ==
    IF get_plugin(reg, name) # NoInfo /\ ConcreteType(get_plugin(reg, name)[1].plugin) = P
    THEN [kind |-> "ok", detail |-> get_plugin(reg, name)[1].plugin]
    ELSE [kind |-> "err", detail |-> NotFoundMsg(name)]

(* with_any::<P>: downcast_ref of the registered plugin *)
with_any(reg, name, P) ==
    IF get_plugin(reg, name) # NoInfo
    THEN IF ConcreteType(get_plugin(reg, name)[1].plugin) = P
         THEN [kind |-> "ok", detail |-> get_plugin(reg, name)[1].plugin]
         ELSE [kind |-> "err", detail |-> DowncastMsg(name)]
    ELSE [kind |-> "err", detail |-> NotFoundMsg(name)]

(* The root crate's PluginManager (src/lib.rs): a map from a name to a     *)
(* Box<dyn Plugin>, with no group.  A plugin handed to it: the name it     *)
(* reports and which object it is.                                         *)
RootPlugin(name, object) == [name |-> name, object |-> object]

(* register_plugin of the root crate: HashMap::insert under plugin.name() *)
root_register_plugin(reg, plugin) ==
    [n \in DOMAIN reg \cup {plugin.name} |-> IF n = plugin.name THEN plugin ELSE reg[n]]

(* get_plugin of the root crate: HashMap::get *)
root_get_plugin(reg, name) == IF name \in DOMAIN reg THEN <<reg[name]>> ELSE <<>>

(* execute_plugin of the root crate *)
root_execute_plugin(reg, name, context, result) ==
    IF root_get_plugin(reg, name) # <<>>
    THEN [ret |-> result,
          invoked |-> <<Execute(root_get_plugin(reg, name)[1], context, result)>>]
    ELSE [ret |-> [kind |-> "err", detail |-> NotFoundMsg(name)], invoked |-> <<>>]

(* What activate_plugins of the root crate finds: the manifest behind      *)
(* CARGO_MANIFEST_PATH (unreadable, without or with plugin_a_path) and     *)
(* what Library::new and library.get find at the hard-coded plugin_path    *)
RootManifests == {"unreadable", "no_path", "path"}
RootModules == {"missing", "corrupt", "nosym", "ok"}

(* activate_plugins of the root crate on a new manager: with plugin_a_path *)
(* the module is loaded, its plugin registered and executed; then, in      *)
(* either case, the module is loaded again and its plugin registered and   *)
(* executed.  Each load gives a plugin object of its own; both report the  *)
(* name of the module's plugin.                                            *)
root_activate_plugins(meta, module, result) ==
    LET first == RootPlugin("plugin_a", "loaded1")
        second == RootPlugin("plugin_a", "loaded2")
        reg1 == IF meta = "path" THEN root_register_plugin(EmptyRegistry, first)
                ELSE EmptyRegistry
        run1 == IF meta = "path" THEN root_execute_plugin(reg1, first.name, "unit", result).invoked
                ELSE <<>>
        reg2 == root_register_plugin(reg1, second)
        run2 == root_execute_plugin(reg2, second.name, "unit", result).invoked
    IN  IF meta = "unreadable"
        THEN [ret |-> [kind |-> "panic", detail |-> <<"unwrap">>], plugins |-> EmptyRegistry,
              registered |-> <<>>, invoked |-> <<>>]
        ELSE IF module # "ok"
        THEN [ret |-> [kind |-> "err",
                       detail |-> IF module = "missing" THEN <<"Plugin file does not exist: ">>
                                  ELSE IF module = "corrupt" THEN <<"LoadError">>
                                  ELSE <<"SymbolNotFound">>],
              plugins |-> EmptyRegistry, registered |-> <<>>, invoked |-> <<>>]
        ELSE IF result.kind = "err"
        THEN [ret |-> result, plugins |-> EmptyRegistry,
              registered |-> IF meta = "path" THEN <<first>> ELSE <<second>>,
              invoked |-> IF meta = "path" THEN run1 ELSE run2]
        ELSE [ret |-> [kind |-> "ok", detail |-> <<>>], plugins |-> reg2,
              registered |-> IF meta = "path" THEN <<first, second>> ELSE <<second>>,
              invoked |-> run1 \o run2]

(* Arguments the caller passes *)
WithPathPaths == {"mods.so", "missing.so"}
WithPathGroups == {None, Some("inventory"), Some("inv.so")}
HostPlugins == {Instance(n, "host", 0) : n \in {"plugin_a", "host_x"}}
HostGroups == {None, Some("inventory"), Some("other")}
Names == {"plugin_a", "inventory_a", "host_x", "absent"}
GroupNames == {"", "inventory", "other"}
Contexts == {"ctx1", "ctx2"}
ExecuteResults == {[kind |-> "ok", detail |-> <<>>], [kind |-> "err", detail |-> <<"plugin failed">>]}
PluginTypes == {<<"mods.so", "plugin_a">>, <<"host", "plugin_a">>, <<"inv.so", "inventory_a">>}
LoadPaths == {"mods.so", "missing.so", "corrupt.so", "nosym.so"}
RootPlugins == {RootPlugin(n, o) : n \in {"plugin_a", "host_x"}, o \in {"host1", "host2"}}
RootNames == {"plugin_a", "host_x", "absent"}

-----------------------------------------------------------------------------
Init ==
    /\ manifest \in Manifests
    /\ plugins = EmptyRegistry
    /\ plugin_path = <<>>
    /\ pc = "idle"
    /\ registrations = <<>>
    /\ cur = NoEntry
    /\ library = 0
    /\ pending = <<>>
    /\ libs = <<>>
    /\ outcome = Result("new", "ok", "")
    /\ loadLog = <<>>
    /\ startedWith = [fresh |-> TRUE, queued |-> <<>>, afterOk |-> FALSE]
    /\ okResults = {}
    /\ nActs = 0 /\ nQueued = 0 /\ nRegs = 0 /\ nNew = 0
    /\ call = NoCall
    /\ nLoads = 0
    /\ reads = [t \in Threads |-> NoCall]
    /\ root = [plugins |-> EmptyRegistry, call |-> NoCall]

(* PluginManager::new(): the caller starts over with an empty manager; the *)
(* one it held, if any, is dropped.                                        *)
New ==
    /\ call = NoCall /\ NoReaders
    /\ UNCHANGED <<call, nLoads, reads, root>>
    /\ pc \in {"idle", "err"}
    /\ nNew < MaxNew
    /\ nNew' = nNew + 1
    /\ plugins' = EmptyRegistry
    /\ plugin_path' = <<>>
    /\ pc' = "idle"
    /\ outcome' = Result("new", "ok", "")
    /\ loadLog' = <<>>
    /\ UNCHANGED <<manifest, registrations, cur, library, pending, libs, startedWith,
                   okResults, nActs, nQueued, nRegs>>

(* with_path(self, path, group): consumes the manager; Ok(self) with the   *)
(* entry pushed, Err(NotFound) when the path does not exist, todo!() when  *)
(* no group is given.  A &str path is always valid Unicode.                *)
WithPath(path, group) ==
    /\ call = NoCall /\ NoReaders
    /\ UNCHANGED <<call, nLoads, reads, root>>
    /\ pc = "idle"
    /\ nQueued < MaxQueued
    /\ nQueued' = nQueued + 1
    /\ IF path \in Files
       THEN IF group.some
            THEN /\ plugin_path' = Append(plugin_path, WithPathEntry(path, group.val))
                 /\ outcome' = Result("with_path", "ok", "")
                 /\ UNCHANGED <<plugins, pc>>
            ELSE /\ outcome' = Result("with_path", "panic", "todo")
                 /\ pc' = "panicked"
                 /\ plugins' = EmptyRegistry
                 /\ plugin_path' = <<>>
       ELSE /\ outcome' = Result("with_path", "err", "NotFound")
            /\ pc' = "err"
            /\ plugins' = EmptyRegistry
            /\ plugin_path' = <<>>
    /\ UNCHANGED <<manifest, registrations, cur, library, pending, libs, loadLog,
                   startedWith, okResults, nActs, nRegs, nNew>>

(* register_plugin called by the owner of the manager *)
RegisterPlugin(plugin, group) ==
    /\ call = NoCall /\ NoReaders
    /\ UNCHANGED <<call, nLoads, reads, root>>
    /\ pc = "idle"
    /\ nRegs < MaxRegs
    /\ nRegs' = nRegs + 1
    /\ LET r == register_plugin(plugins, plugin, group)
       IN  /\ plugins' = r.plugins
           /\ IF r.panic
              THEN /\ pc' = "panicked"
                   /\ outcome' = Result("register_plugin", "panic", "duplicate")
              ELSE /\ pc' = pc
                   /\ outcome' = Result("register_plugin", "ok", plugin.name)
    /\ UNCHANGED <<manifest, plugin_path, registrations, cur, library, pending, libs,
                   loadLog, startedWith, okResults, nActs, nQueued, nNew>>

(* The (name, group) pairs of a registry *)
Pairs(reg) == {<<n, reg[n].group>> : n \in DOMAIN reg}

(* activate_plugins, the list it builds: the manifest's entries in the     *)
(* map's iteration order q, then the entries queued by with_path           *)
Registrations(cfg, q, extra) ==
    [i \in 1..(Len(q) + Len(extra)) |->
        IF i <= Len(q)
        THEN [idx |-> i, key |-> q[i], entry |-> cfg[q[i]]]
        ELSE [idx |-> i, key |-> extra[i - Len(q)].key, entry |-> extra[i - Len(q)].entry]]

(* activate_plugins(self), up to the loop over registrations *)
ActivatePlugins ==
    /\ call = NoCall /\ NoReaders
    /\ UNCHANGED <<call, nLoads, reads, root>>
    /\ pc = "idle"
    /\ nActs < MaxActivations
    /\ nActs' = nActs + 1
    /\ loadLog' = <<>>
    /\ startedWith' = [fresh |-> DOMAIN plugins = {}, queued |-> plugin_path,
                       afterOk |-> outcome = Result("activate_plugins", "ok", "")]
    /\ LET meta == get_plugin_metadata(manifest)
       IN  IF meta.panic # ""
           THEN /\ outcome' = Result("activate_plugins", "panic", meta.panic)
                /\ pc' = "panicked"
                /\ plugins' = EmptyRegistry
                /\ plugin_path' = <<>>
                /\ registrations' = <<>>
           ELSE IF ~meta.some
           THEN /\ outcome' = Result("activate_plugins", "err", "NoMetadata")
                /\ pc' = "err"
                /\ plugins' = EmptyRegistry
                /\ plugin_path' = <<>>
                /\ registrations' = <<>>
           ELSE /\ \E q \in Perms(DOMAIN meta.plugins) :
                      registrations' = Registrations(meta.plugins, q, plugin_path)
                /\ outcome' = Result("activate_plugins", "none", "")
                /\ pc' = "loop"
                /\ UNCHANGED <<plugins, plugin_path>>
    /\ UNCHANGED <<manifest, cur, library, pending, libs, okResults, nQueued, nRegs, nNew>>

(* activation_registration, entered for the next element of registrations: *)
(* an Individual has one path, a Group's paths come in the iteration order *)
(* of its map                                                              *)
ActivationRegistration ==
    /\ UNCHANGED <<call, nLoads, reads, root>>
    /\ pc = "loop"
    /\ registrations # <<>>
    /\ LET item == Head(registrations)
           grp == EntryGroup(item.key, item.entry.kind)
       IN  IF item.entry.kind = "Individual"
           THEN /\ cur' = [idx |-> item.idx, key |-> item.key, kind |-> "Individual",
                           group |-> grp,
                           paths |-> <<[sub |-> "", path |-> item.entry.path]>>]
                /\ pc' = "entry"
           ELSE \E q \in Perms(DOMAIN item.entry.map) :
                /\ cur' = [idx |-> item.idx, key |-> item.key, kind |-> "Group",
                           group |-> grp,
                           paths |-> [i \in 1..Len(q) |->
                                         [sub |-> q[i], path |-> item.entry.map[q[i]]]]]
                /\ pc' = IF Len(q) = 0 THEN "loop" ELSE "entry"
    /\ registrations' = Tail(registrations)
    /\ UNCHANGED <<manifest, plugins, plugin_path, library, pending, libs, outcome,
                   loadLog, startedWith, okResults, nActs, nQueued, nRegs, nNew>>

(* What a failed load does to the activation: `?` at an Individual path,   *)
(* unwrap() inside the Group closure                                       *)
OnLoadError(kind) == IF kind = "Individual" THEN "err" ELSE "panic"

(* Mutant: a failed load is skipped and the loop goes on with the next path *)
LoadPlugin_skip_failed ==
    /\ UNCHANGED <<call, nLoads, reads, root>>
    /\ pc = "entry"
    /\ cur.paths # <<>>
    /\ LET item == Head(cur.paths)
           r == load_plugin(item.path)
           id == Len(libs) + 1
       IN  /\ loadLog' = Append(loadLog, [idx |-> cur.idx, sub |-> item.sub,
                                          path |-> item.path, res |-> r.res,
                                          steps |-> r.steps])
           /\ IF r.res = "ok"
              THEN /\ libs' = Append(libs, [path |-> item.path, state |-> "held"])
                   /\ library' = id
                   /\ pending' = [i \in 1..Len(r.names) |-> Instance(r.names[i], item.path, id)]
                   /\ pc' = "register"
                   /\ UNCHANGED cur
              ELSE /\ cur' = [cur EXCEPT !.paths = Tail(cur.paths)]
                   /\ pc' = IF Len(cur.paths) = 1 THEN "loop" ELSE "entry"
                   /\ UNCHANGED <<libs, library, pending>>
    /\ UNCHANGED <<manifest, plugins, plugin_path, registrations, outcome, startedWith,
                   okResults, nActs, nQueued, nRegs, nNew>>

(* self.load_plugin(path) inside activation_registration *)
LoadPlugin ==
    /\ UNCHANGED <<call, nLoads, reads, root>>
    /\ pc = "entry"
    /\ cur.paths # <<>>
    /\ LET item == Head(cur.paths)
           r == load_plugin(item.path)
           id == Len(libs) + 1
       IN  /\ loadLog' = Append(loadLog, [idx |-> cur.idx, sub |-> item.sub,
                                          path |-> item.path, res |-> r.res,
                                          steps |-> r.steps])
           /\ IF r.res = "ok"
              THEN /\ libs' = Append(libs, [path |-> item.path, state |-> "held"])
                   /\ library' = id
                   /\ pending' = [i \in 1..Len(r.names) |-> Instance(r.names[i], item.path, id)]
                   /\ pc' = "register"
                   /\ UNCHANGED <<plugins, plugin_path, registrations, cur, outcome>>
              ELSE IF OnLoadError(cur.kind) = "err"
              THEN /\ outcome' = Result("activate_plugins", "err", r.res)
                   /\ pc' = "err"
                   /\ plugins' = EmptyRegistry
                   /\ plugin_path' = <<>>
                   /\ registrations' = <<>>
                   /\ cur' = NoEntry
                   /\ UNCHANGED <<libs, library, pending>>
              ELSE /\ outcome' = Result("activate_plugins", "panic", "unwrap")
                   /\ pc' = "unwind_self"
                   /\ UNCHANGED <<plugins, plugin_path, registrations, cur, libs, library, pending>>
    /\ UNCHANGED <<manifest, startedWith, okResults, nActs, nQueued, nRegs, nNew>>

(* register_plugins_vec: one iteration of its loop.  A panic unwinds the   *)
(* frames of register_plugin and register_plugins_vec, which drops the     *)
(* plugins not yet registered.                                             *)
RegisterPluginsVec ==
    /\ UNCHANGED <<call, nLoads, reads, root>>
    /\ pc = "register"
    /\ pending # <<>>
    /\ LET r == register_plugin(plugins, Head(pending), cur.group)
       IN  /\ plugins' = r.plugins
           /\ IF r.panic
              THEN /\ pending' = <<>>
                   /\ pc' = "unwind_library"
                   /\ outcome' = Result("activate_plugins", "panic", "duplicate")
              ELSE /\ pending' = Tail(pending)
                   /\ UNCHANGED <<pc, outcome>>
    /\ UNCHANGED <<manifest, plugin_path, registrations, cur, library, libs, loadLog,
                   startedWith, okResults, nActs, nQueued, nRegs, nNew>>

(* let _library = ManuallyDrop::new(library): the Library is never dropped *)
LeakLibrary ==
    /\ UNCHANGED <<call, nLoads, reads, root>>
    /\ pc = "register"
    /\ pending = <<>>
    /\ libs' = [libs EXCEPT ![library].state = "leaked"]
    /\ library' = 0
    /\ cur' = [cur EXCEPT !.paths = Tail(cur.paths)]
    /\ pc' = IF Len(cur.paths) = 1 THEN "loop" ELSE "entry"
    /\ UNCHANGED <<manifest, plugins, plugin_path, registrations, pending, outcome, loadLog,
                   startedWith, okResults, nActs, nQueued, nRegs, nNew>>

(* Ok(self): the loop is over *)
ActivateReturn ==
    /\ UNCHANGED <<call, nLoads, reads, root>>
    /\ pc = "loop"
    /\ registrations = <<>>
    /\ pc' = "idle"
    /\ cur' = NoEntry
    /\ outcome' = Result("activate_plugins", "ok", "")
    /\ okResults' = IF startedWith.fresh
                    THEN okResults \cup {[queued |-> plugin_path, pairs |-> Pairs(plugins),
                                          order |-> [i \in 1..Len(loadLog) |-> loadLog[i].path]]}
                    ELSE okResults
    /\ UNCHANGED <<manifest, plugins, plugin_path, registrations, library, pending, libs,
                   loadLog, startedWith, nActs, nQueued, nRegs, nNew>>

(* Unwinding activation_registration's frame (or the closure's) drops the  *)
(* local `library`: it has not been wrapped in ManuallyDrop yet            *)
UnwindLibrary ==
    /\ UNCHANGED <<call, nLoads, reads, root>>
    /\ pc = "unwind_library"
    /\ libs' = [libs EXCEPT ![library].state = "dropped"]
    /\ library' = 0
    /\ pc' = "unwind_self"
    /\ UNCHANGED <<manifest, plugins, plugin_path, registrations, cur, pending, outcome,
                   loadLog, startedWith, okResults, nActs, nQueued, nRegs, nNew>>

(* Unwinding activate_plugins' frame drops self, and the registry with it  *)
UnwindSelf ==
    /\ UNCHANGED <<call, nLoads, reads, root>>
    /\ pc = "unwind_self"
    /\ plugins' = EmptyRegistry
    /\ plugin_path' = <<>>
    /\ registrations' = <<>>
    /\ cur' = NoEntry
    /\ pc' = "panicked"
    /\ UNCHANGED <<manifest, library, pending, libs, outcome, loadLog, startedWith,
                   okResults, nActs, nQueued, nRegs, nNew>>

(* Manifests over modules that load *)
(* Everything but the registry and the record of the call *)
RegistryFrame ==
    UNCHANGED <<manifest, plugin_path, pc, registrations, cur, library, pending, libs,
                outcome, loadLog, startedWith, okResults, nActs, nQueued, nNew>>

(* deregister_plugin called by the owner of the manager *)
DeregisterPlugin(name) ==
    /\ pc = "idle"
    /\ call = NoCall /\ NoReaders
    /\ nRegs < MaxRegs
    /\ nRegs' = nRegs + 1
    /\ LET r == deregister_plugin(plugins, name)
       IN  /\ plugins' = r.plugins
           /\ call' = [op |-> "deregister_plugin", arg |-> name, before |-> plugins,
                       ret |-> r.ret]
    /\ RegistryFrame
    /\ UNCHANGED <<nLoads, reads, root>>

(* deregister_all_plugins called by the owner of the manager *)
DeregisterAllPlugins ==
    /\ pc = "idle"
    /\ call = NoCall /\ NoReaders
    /\ nRegs < MaxRegs
    /\ nRegs' = nRegs + 1
    /\ \E q \in Perms(DOMAIN plugins) :
          LET r == deregister_all_plugins(plugins, q)
          IN  /\ plugins' = r.plugins
              /\ call' = [op |-> "deregister_all_plugins", before |-> plugins, ret |-> r.ret]
    /\ RegistryFrame
    /\ UNCHANGED <<nLoads, reads, root>>

(* get_plugin *)
GetPlugin(name) ==
    /\ pc = "idle"
    /\ call = NoCall /\ NoReaders
    /\ call' = [op |-> "get_plugin", arg |-> name, ret |-> get_plugin(plugins, name)]
    /\ RegistryFrame
    /\ UNCHANGED <<plugins, nRegs, nLoads, reads, root>>

(* get_plugins_by_group *)
GetPluginsByGroup(group) ==
    /\ pc = "idle"
    /\ call = NoCall /\ NoReaders
    /\ \E q \in Perms(DOMAIN plugins) :
          call' = [op |-> "get_plugins_by_group", arg |-> group,
                   ret |-> get_plugins_by_group(plugins, group, q)]
    /\ RegistryFrame
    /\ UNCHANGED <<plugins, nRegs, nLoads, reads, root>>

(* get_all_plugin_names *)
GetAllPluginNames ==
    /\ pc = "idle"
    /\ call = NoCall /\ NoReaders
    /\ \E q \in Perms(DOMAIN plugins) :
          call' = [op |-> "get_all_plugin_names", ret |-> get_all_plugin_names(plugins, q)]
    /\ RegistryFrame
    /\ UNCHANGED <<plugins, nRegs, nLoads, reads, root>>

(* get_all_plugin_names_and_groups *)
GetAllPluginNamesAndGroups ==
    /\ pc = "idle"
    /\ call = NoCall /\ NoReaders
    /\ \E q \in Perms(DOMAIN plugins) :
          call' = [op |-> "get_all_plugin_names_and_groups",
                   ret |-> get_all_plugin_names_and_groups(plugins, q)]
    /\ RegistryFrame
    /\ UNCHANGED <<plugins, nRegs, nLoads, reads, root>>

(* execute_plugin; what the plugin's execute returns is the plugin's choice *)
ExecutePlugin(name, context) ==
    /\ pc = "idle"
    /\ call = NoCall /\ NoReaders
    /\ \E result \in ExecuteResults :
          LET r == execute_plugin(plugins, name, context, result)
          IN  call' = [op |-> "execute_plugin", arg |-> name, context |-> context,
                       ret |-> r.ret, invoked |-> r.invoked]
    /\ RegistryFrame
    /\ UNCHANGED <<plugins, nRegs, nLoads, reads, root>>

(* with_any::<P> *)
WithAny(name, P) ==
    /\ pc = "idle"
    /\ call = NoCall /\ NoReaders
    /\ call' = [op |-> "with_any", arg |-> name, type |-> P, ret |-> with_any(plugins, name, P)]
    /\ RegistryFrame
    /\ UNCHANGED <<plugins, nRegs, nLoads, reads, root>>

(* The direct load_plugin calls before this one whose results the caller   *)
(* still holds, the latest first                                           *)
PriorLoad ==
    IF call.op = "load_plugin"
    THEN <<[arg |-> call.arg, ret |-> call.ret, library |-> call.library,
            plugins |-> call.plugins]>> \o call.prior
    ELSE <<>>

(* The Library values the caller holds from direct load_plugin calls *)
HeldLibraries ==
    IF call.op = "load_plugin"
    THEN {call.library} \cup {call.prior[i].library : i \in 1..Len(call.prior)}
    ELSE {}

(* The caller lets go of what the last call returned; the plugins of a     *)
(* direct load_plugin go first, its Library after them                     *)
DropResult ==
    /\ pc = "idle"
    /\ call # NoCall
    /\ call' = NoCall
    /\ libs' = [i \in 1..Len(libs) |->
                   IF i \in HeldLibraries THEN [libs[i] EXCEPT !.state = "dropped"] ELSE libs[i]]
    /\ UNCHANGED <<manifest, plugins, plugin_path, pc, registrations, cur, library, pending,
                   outcome, loadLog, startedWith, okResults, nActs, nQueued, nRegs, nNew,
                   nLoads, reads, root>>

(* Mutant: the plugins a direct load_plugin call produced are registered  *)
(* as register_plugins_vec does                                           *)
LoadPluginCall_registers(filename) ==
    /\ pc = "idle"
    /\ call.op \in {"none", "load_plugin"}
    /\ nLoads < MaxLoads
    /\ nLoads' = nLoads + 1
    /\ LET r == load_plugin(filename)
           id == Len(libs) + 1
           produced == [i \in 1..Len(r.names) |-> Instance(r.names[i], filename, id)]
       IN  /\ libs' = IF r.res = "ok"
                      THEN Append(libs, [path |-> filename, state |-> "held"])
                      ELSE libs
           /\ call' = [op |-> "load_plugin", arg |-> filename, before |-> plugins,
                       ret |-> r.res, steps |-> r.steps, library |-> IF r.res = "ok" THEN id ELSE 0,
                       plugins |-> produced, prior |-> PriorLoad]
           /\ plugins' = [n \in DOMAIN plugins \cup Range(r.names) |->
                             IF n \in DOMAIN plugins THEN plugins[n]
                             ELSE PluginInfo(Instance(n, filename, id), None)]
    /\ UNCHANGED <<manifest, plugin_path, pc, registrations, cur, library, pending,
                   outcome, loadLog, startedWith, okResults, nActs, nQueued, nRegs, nNew,
                   reads, root>>

(* load_plugin called directly: the Library and the plugins go to the      *)
(* caller, who holds them                                                  *)
LoadPluginCall(filename) ==
    /\ pc = "idle"
    /\ call.op \in {"none", "load_plugin"}
    /\ nLoads < MaxLoads
    /\ nLoads' = nLoads + 1
    /\ LET r == load_plugin(filename)
           id == Len(libs) + 1
           produced == [i \in 1..Len(r.names) |-> Instance(r.names[i], filename, id)]
       IN  /\ libs' = IF r.res = "ok"
                      THEN Append(libs, [path |-> filename, state |-> "held"])
                      ELSE libs
           /\ call' = [op |-> "load_plugin", arg |-> filename, before |-> plugins,
                       ret |-> r.res, steps |-> r.steps, library |-> IF r.res = "ok" THEN id ELSE 0,
                       plugins |-> produced, prior |-> PriorLoad]
    /\ UNCHANGED <<manifest, plugins, plugin_path, pc, registrations, cur, library, pending,
                   outcome, loadLog, startedWith, okResults, nActs, nQueued, nRegs, nNew,
                   reads, root>>

(* A read operation as a thread issues it: the method, its first argument *)
(* and its second one (the context of execute_plugin, the type of with_any) *)
ReadCall(op, arg, extra) == [op |-> op, arg |-> arg, extra |-> extra]
ReadCalls ==
    {ReadCall("get_plugin", name, "") : name \in Names}
    \cup {ReadCall("get_plugins_by_group", group, "") : group \in GroupNames}
    \cup {ReadCall("get_all_plugin_names", "", ""), ReadCall("get_all_plugin_names_and_groups", "", "")}
    \cup {ReadCall("execute_plugin", name, context) : name \in Names, context \in Contexts}
    \cup {ReadCall("with_any", name, P) : name \in Names, P \in PluginTypes}

(* What the read c can return on the registry reg, over the iteration      *)
(* orders of the map and over what the plugin's execute does               *)
ReadResults(reg, c) ==
    CASE c.op = "get_plugin" -> {get_plugin(reg, c.arg)}
      [] c.op = "get_plugins_by_group" ->
            {get_plugins_by_group(reg, c.arg, q) : q \in Perms(DOMAIN reg)}
      [] c.op = "get_all_plugin_names" ->
            {get_all_plugin_names(reg, q) : q \in Perms(DOMAIN reg)}
      [] c.op = "get_all_plugin_names_and_groups" ->
            {get_all_plugin_names_and_groups(reg, q) : q \in Perms(DOMAIN reg)}
      [] c.op = "execute_plugin" ->
            {execute_plugin(reg, c.arg, c.extra, result) : result \in ExecuteResults}
      [] c.op = "with_any" -> {with_any(reg, c.arg, c.extra)}

(* The threads that are inside a read *)
InFlight == {t \in Threads : reads[t] # NoCall /\ ~reads[t].done}

(* Everything but the reads in flight *)
ReadFrame ==
    UNCHANGED <<manifest, plugin_path, pc, registrations, cur, library, pending, libs,
                outcome, loadLog, startedWith, okResults, nActs, nQueued, nRegs, nNew,
                call, nLoads, root>>

(* Thread t enters a read operation through its shared reference *)
ReadBegin(t, c) ==
    /\ pc = "idle"
    /\ call = NoCall
    /\ reads[t] = NoCall
    /\ reads' = [reads EXCEPT ![t] = [c |-> c, seen |-> plugins, done |-> FALSE,
                                      ret |-> <<>>, with |-> {}]]
    /\ UNCHANGED plugins
    /\ ReadFrame

(* Mutant: get_plugin takes the entry out of the map *)
ReadEnd_takes(t) ==
    /\ t \in InFlight
    /\ \E r \in ReadResults(plugins, reads[t].c) :
          reads' = [reads EXCEPT ![t].done = TRUE, ![t].ret = r, ![t].with = InFlight \ {t}]
    /\ plugins' = IF reads[t].c.op = "get_plugin"
                  THEN [n \in DOMAIN plugins \ {reads[t].c.arg} |-> plugins[n]]
                  ELSE plugins
    /\ ReadFrame

(* The read of thread t runs on the map as it is now and returns *)
ReadEnd(t) ==
    /\ t \in InFlight
    /\ \E r \in ReadResults(plugins, reads[t].c) :
          reads' = [reads EXCEPT ![t].done = TRUE, ![t].ret = r, ![t].with = InFlight \ {t}]
    /\ UNCHANGED plugins
    /\ ReadFrame

(* Thread t lets go of what its read returned *)
ReadDrop(t) ==
    /\ reads[t] # NoCall
    /\ reads[t].done
    /\ reads' = [reads EXCEPT ![t] = NoCall]
    /\ UNCHANGED plugins
    /\ ReadFrame

(* The model of plugin_manager's manager is not touched by the root crate's *)
RootFrame ==
    UNCHANGED <<manifest, plugins, plugin_path, pc, registrations, cur, library, pending,
                libs, outcome, loadLog, startedWith, okResults, nActs, nQueued, nRegs, nNew,
                call, nLoads, reads>>

(* register_plugin of the root crate *)
RootRegisterPlugin(plugin) ==
    /\ root' = [plugins |-> root_register_plugin(root.plugins, plugin),
                call |-> [op |-> "register_plugin", plugin |-> plugin,
                          before |-> root.plugins]]
    /\ RootFrame

(* get_plugin of the root crate *)
RootGetPlugin(name) ==
    /\ root' = [root EXCEPT !.call = [op |-> "get_plugin", arg |-> name,
                                      ret |-> root_get_plugin(root.plugins, name)]]
    /\ RootFrame

(* execute_plugin of the root crate *)
RootExecutePlugin(name, context) ==
    /\ \E result \in ExecuteResults :
          LET r == root_execute_plugin(root.plugins, name, context, result)
          IN  root' = [root EXCEPT !.call = [op |-> "execute_plugin", arg |-> name,
                                             context |-> context, ret |-> r.ret,
                                             invoked |-> r.invoked]]
    /\ RootFrame

(* activate_plugins of the root crate: the caller gets a new manager *)
RootActivatePlugins ==
    /\ \E meta \in RootManifests, module \in RootModules, result \in ExecuteResults :
          LET r == root_activate_plugins(meta, module, result)
          IN  root' = [plugins |-> r.plugins,
                       call |-> [op |-> "activate_plugins", ret |-> r.ret,
                                 registered |-> r.registered, invoked |-> r.invoked]]
    /\ RootFrame

PathsOf(entry) == IF entry.kind = "Individual" THEN {entry.path}
                  ELSE {entry.map[k] : k \in DOMAIN entry.map}
ConfigPaths(cfg) == UNION {PathsOf(cfg[k]) : k \in DOMAIN cfg}
LoadingManifests ==
    {m \in Manifests :
        /\ m.kind = "ok"
        /\ ConfigPaths(m.plugins) \subseteq {"mods.so", "inv.so", "clash.so"}
        /\ \A k \in DOMAIN m.plugins :
              IF k = "inventory" THEN m.plugins[k] \in {Group(g) : g \in SubMaps({"s1"})}
              ELSE m.plugins[k].kind = "Individual"}

InitRegistry == Init /\ manifest \in LoadingManifests

NextActivation ==
    \/ New
    \/ \E path \in WithPathPaths, group \in WithPathGroups : WithPath(path, group)
    \/ ActivatePlugins
    \/ ActivationRegistration
    \/ LoadPlugin
    \/ RegisterPluginsVec
    \/ LeakLibrary
    \/ ActivateReturn
    \/ UnwindLibrary
    \/ UnwindSelf

(* Activation over every manifest *)
SpecActivation == Init /\ [][NextActivation]_vars

Next ==
    \/ New
    \/ \E path \in WithPathPaths, group \in WithPathGroups : WithPath(path, group)
    \/ \E plugin \in HostPlugins, group \in HostGroups : RegisterPlugin(plugin, group)
    \/ ActivatePlugins
    \/ ActivationRegistration
    \/ LoadPlugin
    \/ RegisterPluginsVec
    \/ LeakLibrary
    \/ ActivateReturn
    \/ UnwindLibrary
    \/ UnwindSelf

(* The caller's thread keeps running: a started activation goes on until   *)
(* it returns or has unwound (no module of the model hangs in its entry    *)
(* point).                                                                 *)
ActivationStep ==
    \/ ActivationRegistration
    \/ LoadPlugin
    \/ RegisterPluginsVec
    \/ LeakLibrary
    \/ ActivateReturn
    \/ UnwindLibrary
    \/ UnwindSelf

SpecActivationFair == SpecActivation /\ WF_vars(ActivationStep)

(* Construction, registration and activation, over the manifests whose    *)
(* modules load                                                            *)
Spec == InitRegistry /\ [][Next]_vars

(* The manifests the registry operations are exercised on: an empty        *)
(* plugins table, or an Individual entry and a group over the two modules  *)
(* that load and share no plugin name                                      *)
RegistryManifests ==
    {m \in LoadingManifests :
        \/ DOMAIN m.plugins = {}
        \/ /\ DOMAIN m.plugins = TopKeys
           /\ ConfigPaths(m.plugins) = {"mods.so", "inv.so"}}
InitCalls == Init /\ manifest \in RegistryManifests

NextRegistry ==
    \/ \E plugin \in HostPlugins, group \in HostGroups : RegisterPlugin(plugin, group)
    \/ ActivatePlugins
    \/ ActivationRegistration
    \/ LoadPlugin
    \/ RegisterPluginsVec
    \/ LeakLibrary
    \/ ActivateReturn
    \/ UnwindLibrary
    \/ UnwindSelf
    \/ \E name \in Names : DeregisterPlugin(name)
    \/ DeregisterAllPlugins
    \/ \E name \in Names : GetPlugin(name)
    \/ \E group \in GroupNames : GetPluginsByGroup(group)
    \/ GetAllPluginNames
    \/ GetAllPluginNamesAndGroups
    \/ \E name \in Names, context \in Contexts : ExecutePlugin(name, context)
    \/ \E name \in Names, P \in PluginTypes : WithAny(name, P)
    \/ \E filename \in LoadPaths : LoadPluginCall(filename)
    \/ DropResult

NextReaders ==
    \/ ActivatePlugins
    \/ ActivationRegistration
    \/ LoadPlugin
    \/ RegisterPluginsVec
    \/ LeakLibrary
    \/ ActivateReturn
    \/ UnwindLibrary
    \/ UnwindSelf
    \/ \E t \in Threads, c \in ReadCalls : ReadBegin(t, c)
    \/ \E t \in Threads : ReadEnd(t)
    \/ \E t \in Threads : ReadDrop(t)

(* Threads reading a registry they share, between activations *)
SpecReaders == InitCalls /\ [][NextReaders]_vars

NextRoot ==
    \/ \E plugin \in RootPlugins : RootRegisterPlugin(plugin)
    \/ \E name \in RootNames : RootGetPlugin(name)
    \/ \E name \in RootNames, context \in Contexts : RootExecutePlugin(name, context)
    \/ RootActivatePlugins

(* The root crate's manager *)
SpecRoot == InitCalls /\ [][NextRoot]_vars

(* The registry's operations on a manager that is registered to and activated *)
SpecRegistry == InitCalls /\ [][NextRegistry]_vars

-----------------------------------------------------------------------------
(* The plugins that are alive: registered, or produced and awaiting registration *)
AlivePlugins == {plugins[n].plugin : n \in DOMAIN plugins} \cup {pending[i] : i \in 1..Len(pending)}

(* C1: register_plugin with a plugin whose name is already a key of the    *)
(* registry panics, whatever the group passed and the group of the entry,  *)
(* and the registry is the same after the call: the entry is not replaced. *)
(* Both call sites: the owner's call and register_plugins_vec's loop.      *)
C1_DuplicateRegistrationIsFatal ==
    [][ /\ \A plugin \in HostPlugins, group \in HostGroups :
            (RegisterPlugin(plugin, group) /\ plugin.name \in DOMAIN plugins)
                => /\ pc' = "panicked"
                   /\ outcome' = Result("register_plugin", "panic", "duplicate")
                   /\ plugins' = plugins
        /\ (RegisterPluginsVec /\ Head(pending).name \in DOMAIN plugins)
                => /\ pc' = "unwind_library"
                   /\ outcome' = Result("activate_plugins", "panic", "duplicate")
                   /\ plugins' = plugins ]_vars

(* C1 witness: the owner registered a plugin named like one that an        *)
(* activation had loaded from a module into a group; the call panicked and *)
(* the module's plugin is still the entry.                                 *)
C1_Witness ==
    /\ pc = "panicked"
    /\ outcome = Result("register_plugin", "panic", "duplicate")
    /\ "plugin_a" \in DOMAIN plugins
    /\ plugins["plugin_a"].plugin.path = "mods.so"
    /\ plugins["plugin_a"].group = Some("inventory")

(* C2: a module is not unmapped while a plugin it produced is alive, on    *)
(* every path of activation, the unwinding of a panic included.            *)
C2_ModuleOutlivesItsPlugins ==
    \A p \in AlivePlugins : ModuleMapped(p.path)

LoadFailed == loadLog # <<>> /\ loadLog[Len(loadLog)].res # "ok"

(* C3: when load_plugin fails for a path of the manifest, Individual or    *)
(* inside a Group, activate_plugins returns Err with that load error.      *)
C3_LoadFailureIsReturned ==
    LoadFailed => outcome = Result("activate_plugins", "err", loadLog[Len(loadLog)].res)

(* C4: a manifest that cannot be read, is not TOML or does not have the    *)
(* shape of Metadata makes activate_plugins return Err; activation panics  *)
(* for a duplicate identity only.                                          *)
C4_ManifestFaultsAreReturned ==
    outcome.op = "activate_plugins" =>
        /\ manifest.kind \in FaultKinds => outcome.kind = "err"
        /\ outcome.kind = "panic" => outcome.detail = "duplicate"

(* C5: with no plugin configuration (manifest unreadable, no               *)
(* package.metadata table, no plugins key) activate_plugins returns Err,   *)
(* loads no module and registers no plugin, also with a path queued by     *)
(* with_path; it never returns Ok.                                         *)
C5_NoConfigurationIsAnError ==
    manifest.kind \in {"unreadable", "nometa", "noplugins"} =>
        /\ outcome.op = "activate_plugins" =>
              outcome = Result("activate_plugins", "err", "NoMetadata")
        /\ pc \in {"idle", "err", "panicked"}
        /\ libs = <<>>
        /\ loadLog = <<>>
        /\ DOMAIN plugins = {}

(* C5 witness: activation of a manager with a queued path, the manifest    *)
(* having no plugins key, returned the error.                              *)
C5_Witness ==
    /\ manifest.kind = "noplugins"
    /\ startedWith.queued # <<>>
    /\ pc = "err"
    /\ outcome = Result("activate_plugins", "err", "NoMetadata")

(* C6: in one activation no configured path (an element of registrations   *)
(* and a sub-name in it) is loaded twice; only the last load of the log    *)
(* can be a failed one; after a failed load the caller holds no manager,   *)
(* no further load happens, no Library is created, no plugin is registered *)
(* and the activation does not return Ok.                                  *)
C6_FailFastNoRetry ==
    /\ [](\A i, j \in 1..Len(loadLog) :
             (loadLog[i].idx = loadLog[j].idx /\ loadLog[i].sub = loadLog[j].sub) => i = j)
    /\ [](\A i \in 1..Len(loadLog) : loadLog[i].res # "ok" => i = Len(loadLog))
    /\ [](LoadFailed => /\ pc \in {"err", "unwind_self", "panicked"}
                        /\ outcome.op = "activate_plugins"
                        /\ outcome.kind \in {"err", "panic"})
    /\ [][LoadFailed => /\ loadLog' = loadLog \/ (loadLog' = <<>> /\ outcome'.op = "new")
                        /\ libs' = libs
                        /\ DOMAIN plugins' \subseteq DOMAIN plugins
                        /\ outcome' # Result("activate_plugins", "ok", "")]_vars

(* C6 witness: a load failed after another had succeeded and registered    *)
(* plugins, with configured paths still to come.                           *)
C6_Witness ==
    /\ LoadFailed
    /\ Len(loadLog) >= 2
    /\ pc = "unwind_self"
    /\ DOMAIN plugins # {}
    /\ Len(cur.paths) > 1 \/ registrations # <<>>

(* The names the modules of an all-Individual manifest produce, one        *)
(* occurrence per key and position                                         *)
IndividualOnly(m) ==
    m.kind = "ok" /\ \A k \in DOMAIN m.plugins : m.plugins[k].kind = "Individual"
AllLoad(m) == \A p \in ConfigPaths(m.plugins) : load_plugin(p).res = "ok"
Occurrences(m) ==
    UNION {{<<k, i>> : i \in 1..Len(create_plugins(m.plugins[k].path))} : k \in DOMAIN m.plugins}
OccName(m, o) == create_plugins(m.plugins[o[1]].path)[o[2]]
DistinctIdentities(m) ==
    \A o1, o2 \in Occurrences(m) : OccName(m, o1) = OccName(m, o2) => o1 = o2

(* C7: a manifest of Individual entries whose modules load and produce     *)
(* pairwise distinct names, activated on an empty manager with nothing     *)
(* queued, does not fail, and when it returns the registry's keys are the  *)
(* produced names, each entry holding the plugin of that name, group None. *)
C7_IndividualEntriesUngrouped ==
    (/\ IndividualOnly(manifest) /\ AllLoad(manifest) /\ DistinctIdentities(manifest)
     /\ startedWith.fresh /\ startedWith.queued = <<>>
     /\ outcome.op = "activate_plugins")
    => /\ outcome.kind \in {"none", "ok"}
       /\ outcome.kind = "ok" =>
            /\ DOMAIN plugins = {OccName(manifest, o) : o \in Occurrences(manifest)}
            /\ \A n \in DOMAIN plugins : /\ plugins[n].group = None
                                         /\ plugins[n].plugin.name = n

(* C7 witness: two Individual entries, one of a two-plugin module, gave a  *)
(* registry of three ungrouped plugins.                                    *)
C7_Witness ==
    /\ IndividualOnly(manifest)
    /\ Cardinality(DOMAIN manifest.plugins) = 2
    /\ startedWith.fresh /\ startedWith.queued = <<>>
    /\ outcome = Result("activate_plugins", "ok", "")
    /\ DOMAIN plugins = {"plugin_a", "plugin_b", "inventory_a"}

(* C8: after activate_plugins returned Ok, every plugin produced by the    *)
(* module at a sub-path of a Group entry with key G is registered under    *)
(* the name it reports, with group Some(G); no sub-name is a key.          *)
C8_GroupEntriesTagged ==
    outcome = Result("activate_plugins", "ok", "") =>
        \A k \in DOMAIN manifest.plugins :
            manifest.plugins[k].kind = "Group" =>
                \A sub \in DOMAIN manifest.plugins[k].map :
                    /\ sub \notin DOMAIN plugins
                    /\ LET path == manifest.plugins[k].map[sub]
                       IN  \A i \in 1..Len(create_plugins(path)) :
                              LET n == create_plugins(path)[i]
                              IN  /\ n \in DOMAIN plugins
                                  /\ plugins[n].plugin.name = n
                                  /\ plugins[n].plugin.path = path
                                  /\ plugins[n].group = Some(k)

(* C8 witness: a group of two sub-paths beside an Individual entry *)
C8_Witness ==
    /\ outcome = Result("activate_plugins", "ok", "")
    /\ "inventory" \in DOMAIN manifest.plugins
    /\ manifest.plugins["inventory"] = Group([s \in {"s1", "s2"} |->
                                                 IF s = "s1" THEN "inv.so" ELSE "mods.so"])
    /\ Cardinality(DOMAIN plugins) = 3
    /\ plugins["plugin_b"].group = Some("inventory")

(* An activation begun right after activate_plugins returned Ok, on the    *)
(* manager it returned, whose registry was not empty                       *)
SecondActivation ==
    startedWith.afterOk /\ ~startedWith.fresh /\ outcome.op = "activate_plugins"

(* C9: an activation that starts right after activate_plugins returned Ok  *)
(* with a non-empty registry, on that registry, never returns (Ok or Err), *)
(* and it does end in the duplicate-identity panic.                        *)
C9_SecondActivationPanics ==
    /\ [](SecondActivation =>
            /\ outcome.kind \in {"none", "panic"}
            /\ outcome.kind = "panic" => outcome.detail = "duplicate"
            /\ pc \in {"loop", "entry", "register", "unwind_library", "unwind_self", "panicked"})
    /\ SecondActivation ~>
            (pc = "panicked" /\ outcome = Result("activate_plugins", "panic", "duplicate"))

(* C9 witness: the second activation has panicked *)
C9_Witness ==
    /\ SecondActivation
    /\ nActs = 2
    /\ pc = "panicked"
    /\ outcome = Result("activate_plugins", "panic", "duplicate")

(* C10: two activations of empty managers with the same queued paths that  *)
(* both return Ok give the same set of (name, group) pairs, whatever the   *)
(* iteration orders of the manifest's maps were.                           *)
C10_OrderIndependent ==
    \A a, b \in okResults : a.queued = b.queued => a.pairs = b.pairs

(* C10 witness: two such activations loaded the paths in different orders *)
C10_Witness ==
    \E a, b \in okResults :
        /\ a.queued = b.queued
        /\ a.order # b.order
        /\ Cardinality(a.pairs) >= 2

(* C11: after deregister_plugin(id) the identifier is absent: get_plugin(id) *)
(* returns None and a second deregister_plugin(id) returns None and changes *)
(* nothing; deregistering an identifier that was not registered returns     *)
(* None and leaves the registry as it was.                                  *)
C11_DeregisteredIsAbsent ==
    call.op = "deregister_plugin" =>
        /\ get_plugin(plugins, call.arg) = NoInfo
        /\ deregister_plugin(plugins, call.arg).ret = None
        /\ deregister_plugin(plugins, call.arg).plugins = plugins
        /\ call.arg \notin DOMAIN call.before => (call.ret = None /\ plugins = call.before)

(* a registered plugin has been deregistered *)
C11_Witness ==
    /\ call.op = "deregister_plugin"
    /\ call.arg \in DOMAIN call.before
    /\ call.ret # None

(* C12: deregister_plugin(id) of a registered id returns Some(id), removes  *)
(* exactly that entry and leaves every other entry as it was.               *)
C12_DeregisterRemovesExactlyOne ==
    (call.op = "deregister_plugin" /\ call.arg \in DOMAIN call.before) =>
        /\ call.ret = Some(call.arg)
        /\ DOMAIN plugins = DOMAIN call.before \ {call.arg}
        /\ \A n \in DOMAIN plugins : plugins[n] = call.before[n]

(* a plugin has been deregistered while another one of its group was registered *)
C12_Witness ==
    /\ call.op = "deregister_plugin"
    /\ call.arg \in DOMAIN call.before
    /\ \E n \in DOMAIN call.before \ {call.arg} :
          call.before[n].group = call.before[call.arg].group
    /\ \E n \in DOMAIN call.before : call.before[n].group # call.before[call.arg].group

(* C13: deregister_all_plugins leaves the registry empty and returns the    *)
(* identifiers that were registered, each exactly once, in some order; on   *)
(* an empty registry it returns the empty sequence.                         *)
C13_DeregisterAllDrains ==
    call.op = "deregister_all_plugins" =>
        /\ plugins = EmptyRegistry
        /\ Range(call.ret) = DOMAIN call.before
        /\ Len(call.ret) = Cardinality(DOMAIN call.before)
        /\ call.before = EmptyRegistry => call.ret = <<>>

(* a registry of three plugins or more has been drained *)
C13_Witness ==
    /\ call.op = "deregister_all_plugins"
    /\ Cardinality(DOMAIN call.before) >= 3

(* The entries of a registry registered under the group g *)
InGroup(reg, g) == {reg[n] : n \in {m \in DOMAIN reg : reg[m].group = Some(g)}}

(* C14: get_plugins_by_group(g) returns exactly the registered entries      *)
(* whose group is Some(g), each once, for every g, the empty string         *)
(* included; an entry without a group is never returned.                    *)
C14_GroupQueryIsExact ==
    call.op = "get_plugins_by_group" =>
        /\ Range(call.ret) = InGroup(plugins, call.arg)
        /\ Len(call.ret) = Cardinality(InGroup(plugins, call.arg))
        /\ \A i \in 1..Len(call.ret) : call.ret[i].group # None

(* the query for "" has been answered while plugins without a group were registered *)
C14_Witness ==
    /\ call.op = "get_plugins_by_group"
    /\ call.arg = ""
    /\ \E n \in DOMAIN plugins : plugins[n].group = None
    /\ \E n \in DOMAIN plugins : plugins[n].group # None

(* C15: execute_plugin(id, context) for an id that is not registered        *)
(* returns the not-found error and invokes no plugin; for a registered id   *)
(* it invokes execute once, on the plugin stored under id, with the         *)
(* context it was given, and returns what that plugin returned.             *)
C15_ExecuteDelegates ==
    call.op = "execute_plugin" =>
        IF call.arg \notin DOMAIN plugins
        THEN /\ call.ret = [kind |-> "err", detail |-> NotFoundMsg(call.arg)]
             /\ call.invoked = <<>>
        ELSE /\ Len(call.invoked) = 1
             /\ call.invoked[1].plugin = plugins[call.arg].plugin
             /\ call.invoked[1].context = call.context
             /\ call.ret = call.invoked[1].result

(* a registered plugin was executed and its error came back *)
C15_Witness ==
    /\ call.op = "execute_plugin"
    /\ call.arg \in DOMAIN plugins
    /\ call.ret.kind = "err"

(* C16: with_any::<T>(id) returns the not-found error when id is not        *)
(* registered, the downcast error when the registered plugin is not of      *)
(* type T, and the plugin when it is; the two errors differ.                *)
C16_WithAnyOutcomes ==
    /\ call.op = "with_any" =>
          IF call.arg \notin DOMAIN plugins
          THEN call.ret = [kind |-> "err", detail |-> NotFoundMsg(call.arg)]
          ELSE IF ConcreteType(plugins[call.arg].plugin) # call.type
          THEN call.ret = [kind |-> "err", detail |-> DowncastMsg(call.arg)]
          ELSE call.ret = [kind |-> "ok", detail |-> plugins[call.arg].plugin]
    /\ \A n, m \in Names : NotFoundMsg(n) # DowncastMsg(m)

(* a registered plugin was asked for as a type it does not have *)
C16_Witness ==
    /\ call.op = "with_any"
    /\ call.arg \in DOMAIN plugins
    /\ call.ret.kind = "err"

(* The order of the steps of load_plugin *)
LoadOrder == <<"exists", "open", "symbol", "create">>
IsPrefix(s, t) == Len(s) <= Len(t) /\ \A i \in 1..Len(s) : s[i] = t[i]

(* C17: load_plugin on a path that does not exist returns the               *)
(* file-not-found error after the existence check alone; in every call the  *)
(* existence check comes before opening the module, which comes before the  *)
(* symbol lookup, which comes before calling the entry point.               *)
C17_LoadStepsInOrder ==
    /\ call.op = "load_plugin" =>
          /\ call.steps # <<>> /\ IsPrefix(call.steps, LoadOrder)
          /\ call.arg \notin Files => (call.ret = "FileNotFound" /\ call.steps = <<"exists">>)
    /\ \A i \in 1..Len(loadLog) :
          /\ loadLog[i].steps # <<>> /\ IsPrefix(loadLog[i].steps, LoadOrder)
          /\ loadLog[i].path \notin Files =>
                (loadLog[i].res = "FileNotFound" /\ loadLog[i].steps = <<"exists">>)

(* load_plugin was called on a path where no file is *)
C17_Witness ==
    /\ call.op = "load_plugin"
    /\ call.arg \notin Files

C19_LoadPluginRegisters ==
    (call.op = "load_plugin" /\ call.ret = "ok") =>
        \A i \in 1..Len(call.plugins) :
            /\ call.plugins[i].name \in DOMAIN plugins
            /\ plugins[call.plugins[i].name].plugin = call.plugins[i]

(* C20: get_all_plugin_names returns every registered identifier exactly    *)
(* once; get_all_plugin_names_and_groups returns one (identifier, group)    *)
(* pair for every registered plugin, the group being the one the entry was  *)
(* registered with, which no step changes while the entry stays.            *)
C20_ListingsAreExact ==
    /\ [](call.op = "get_all_plugin_names" =>
             /\ Range(call.ret) = DOMAIN plugins
             /\ Len(call.ret) = Cardinality(DOMAIN plugins))
    /\ [](call.op = "get_all_plugin_names_and_groups" =>
             /\ Range(call.ret) = Pairs(plugins)
             /\ Len(call.ret) = Cardinality(DOMAIN plugins))
    /\ [][\A n \in DOMAIN plugins \cap DOMAIN plugins' :
             plugins'[n].group = plugins[n].group]_vars

(* names and groups were listed for a registry with grouped and ungrouped plugins *)
C20_Witness ==
    /\ call.op = "get_all_plugin_names_and_groups"
    /\ Len(call.ret) >= 3
    /\ \E i, j \in 1..Len(call.ret) : call.ret[i][2] = None /\ call.ret[j][2] # None

(* C22: in every state reached by register_plugin, deregister_plugin,       *)
(* deregister_all_plugins and activate_plugins calls, each entry of the     *)
(* registry is stored under the name its plugin reports, so no two entries  *)
(* hold plugins that report the same name.                                  *)
C22_KeyedByReportedName ==
    /\ \A n \in DOMAIN plugins : plugins[n].plugin.name = n
    /\ \A n, m \in DOMAIN plugins :
          plugins[n].plugin.name = plugins[m].plugin.name => n = m

(* the owner registered a plugin with a group into an activated registry and *)
(* used up its direct calls                                                 *)
C22_Witness ==
    /\ pc = "idle"
    /\ nActs >= 1
    /\ nRegs = MaxRegs
    /\ outcome.op = "register_plugin" /\ outcome.kind = "ok"
    /\ Cardinality(DOMAIN plugins) >= 3
    /\ \E n \in DOMAIN plugins : plugins[n].plugin.path = "host" /\ plugins[n].group # None

(* The manager is gone after the step: consumed by a call that returned Err *)
(* or unwound by a panic                                                    *)
ManagerDropped == pc' \in {"err", "panicked"}

(* C23: a register_plugin(p, g) that returns adds exactly the entry         *)
(* name(p) -> (p, g) and touches no other entry; an entry keeps its plugin  *)
(* and its group in every step but the deregistration of its own            *)
(* identifier, the draining of the registry and the end of the manager.     *)
C23_EntryIsStable ==
    /\ [][\A plugin \in HostPlugins, group \in HostGroups :
             (RegisterPlugin(plugin, group) /\ pc' = "idle") =>
                 /\ plugin.name \notin DOMAIN plugins
                 /\ DOMAIN plugins' = DOMAIN plugins \cup {plugin.name}
                 /\ plugins'[plugin.name] = PluginInfo(plugin, group)]_vars
    /\ [][\A n \in DOMAIN plugins :
             \/ n \in DOMAIN plugins' /\ plugins'[n] = plugins[n]
             \/ call = NoCall /\ call'.op = "deregister_plugin" /\ call'.arg = n
             \/ call = NoCall /\ call'.op = "deregister_all_plugins"
             \/ ManagerDropped]_vars

(* a plugin the owner registered is executed in a registry that activation   *)
(* has added other plugins to                                               *)
C23_Witness ==
    /\ outcome = Result("activate_plugins", "ok", "")
    /\ call.op = "execute_plugin"
    /\ call.arg = "host_x"
    /\ "host_x" \in DOMAIN plugins
    /\ Cardinality(DOMAIN plugins) >= 3

(* registry reg with the entry of plugin under group added *)
WithEntry(reg, plugin, group) ==
    [n \in DOMAIN reg \cup {plugin.name} |->
        IF n = plugin.name THEN PluginInfo(plugin, group) ELSE reg[n]]

(* C24: once deregister_plugin(id) has returned Some, or                    *)
(* deregister_all_plugins has returned, register_plugin of a plugin that    *)
(* reports id does not panic and leaves the entry id holding that plugin    *)
(* with the group given in that call.                                       *)
C24_DeregistrationFreesIdentity ==
    /\ []((call.op = "deregister_plugin" /\ call.ret # None) =>
             \A plugin \in HostPlugins, group \in HostGroups :
                 plugin.name = call.arg =>
                     register_plugin(plugins, plugin, group)
                         = [panic |-> FALSE, plugins |-> WithEntry(plugins, plugin, group)])
    /\ [](call.op = "deregister_all_plugins" =>
             \A plugin \in HostPlugins, group \in HostGroups :
                 register_plugin(plugins, plugin, group)
                     = [panic |-> FALSE, plugins |-> WithEntry(plugins, plugin, group)])
    /\ [][\A plugin \in HostPlugins, group \in HostGroups :
             (RegisterPlugin(plugin, group) /\ plugin.name \notin DOMAIN plugins) =>
                 /\ pc' = "idle"
                 /\ plugins' = WithEntry(plugins, plugin, group)]_vars

(* plugin_a of mods.so was deregistered and the host's plugin_a registered  *)
(* in its place with a group                                                *)
C24_Witness ==
    /\ pc = "idle"
    /\ outcome = Result("register_plugin", "ok", "plugin_a")
    /\ "plugin_b" \in DOMAIN plugins
    /\ "plugin_a" \in DOMAIN plugins
    /\ plugins["plugin_a"].plugin.path = "host"
    /\ plugins["plugin_a"].group # None

(* The paths handed to with_path in the queued entries q *)
QueuedPaths(q) == UNION {DOMAIN q[i].entry.map : i \in 1..Len(q)}

(* C25: a path queued by with_path(path, Some(group)) is loaded by the next *)
(* activate_plugins and the plugins of that module are registered with      *)
(* group Some(group); load_plugin is called on configured paths only, those *)
(* of the manifest and those queued.                                        *)
C25_QueuedPathLoadedUnderGroup ==
    /\ \A i \in 1..Len(loadLog) :
          loadLog[i].path \in ConfigPaths(get_plugin_metadata(manifest).plugins)
                                \cup QueuedPaths(startedWith.queued)
    /\ outcome = Result("activate_plugins", "ok", "") =>
          \A i \in 1..Len(startedWith.queued) :
              \A path \in DOMAIN startedWith.queued[i].entry.map :
                  /\ \E k \in 1..Len(loadLog) : loadLog[k].path = path
                  /\ \A name \in Range(create_plugins(path)) :
                        /\ name \in DOMAIN plugins
                        /\ plugins[name].group = Some(startedWith.queued[i].key)

(* C26: in the root crate's PluginManager, register_plugin of a plugin      *)
(* whose name is already registered does not replace the entry: get_plugin  *)
(* still returns the plugin stored before and execute_plugin still runs it. *)
C26_RootNeverOverwrites ==
    (root.call.op = "register_plugin" /\ root.call.plugin.name \in DOMAIN root.call.before) =>
        LET name == root.call.plugin.name
        IN  /\ root_get_plugin(root.plugins, name) = <<root.call.before[name]>>
            /\ \A context \in Contexts, result \in ExecuteResults :
                  root_execute_plugin(root.plugins, name, context, result).invoked
                      = <<Execute(root.call.before[name], context, result)>>

(* C21: the read operations get_plugin, get_plugins_by_group,               *)
(* get_all_plugin_names, get_all_plugin_names_and_groups, execute_plugin    *)
(* and with_any leave the registry as it is, so a read that runs while      *)
(* other threads are inside reads of the shared registry returns what it    *)
(* returns when it runs alone on the registry it started on.                *)
C21_ReadsCommute ==
    /\ [][reads' # reads =>
             /\ plugins' = plugins
             /\ plugin_path' = plugin_path
             /\ libs' = libs]_vars
    /\ [](\A t \in Threads :
             reads[t] # NoCall =>
                 /\ plugins = reads[t].seen
                 /\ reads[t].done => reads[t].ret \in ReadResults(reads[t].seen, reads[t].c))

(* after an activation that returned Ok, a thread has executed a registered *)
(* plugin while the other thread was inside a read, and that one has        *)
(* returned too                                                             *)
C21_Witness ==
    /\ outcome = Result("activate_plugins", "ok", "")
    /\ DOMAIN plugins # {}
    /\ \A t \in Threads : reads[t] # NoCall /\ reads[t].done
    /\ \E t \in Threads :
          /\ reads[t].with # {}
          /\ reads[t].c.op = "execute_plugin"
          /\ reads[t].c.arg \in DOMAIN plugins

====
